---- MODULE Spec2Model ----
(***************************************************************************)
(* A state-machine model of the BipedalWalker environment of walker.py:    *)
(* the terrain generator, the reset sequence, the contact listener, the    *)
(* lidar callback and the step function.                                   *)
(*                                                                         *)
(* Numbers.  The program computes in floating point; the model computes in *)
(* fixed point.  A length is an integer number of 1/LenUnit (1/3000) world *)
(* units, so TERRAIN_STEP = 14/30 is 1400 and TERRAIN_HEIGHT = 10/3 is     *)
(* 10000.  An angle is an integer number of 1/RewUnit (1/9000) radians and *)
(* a reward an integer number of 1/RewUnit, so that                        *)
(* shaping = 130*x/SCALE - 5*|angle| is 13*X - 5*A exactly.  An action     *)
(* component and a lidar fraction are integers in 1/ActUnit (halves) and   *)
(* 1/FracUnit (tenths).                                                    *)
(*                                                                         *)
(* The random source np_random is a seeded generator: its state is a       *)
(* variable, every draw advances it, and the seed is chosen in Init.       *)
(* The physics backend (Box2D) is outside the repository: what it reports  *)
(* (contact events, body positions, fixtures crossed by a ray) is chosen   *)
(* nondeterministically from small sets.                                   *)
(***************************************************************************)
EXTENDS Integers, Sequences, FiniteSets, TLC

(* ------------------------------ bounds -------------------------------- *)
\* seeds 0..MaxTerrainSeed of the terrain-generation specification
MaxTerrainSeed == 19
\* resets a run of the model performs (the constructor's one included)
MaxResets == 2
\* contacts the backend holds at one time
MaxTouching == 2
\* the count of finished steps saturates here
MaxSteps == 3

(* ------------------------- program constants -------------------------- *)
LenUnit == 3000
RewUnit == 9000
ActUnit == 2
FracUnit == 10

FPS == 50
SCALE == 30
MOTORS_TORQUE == 80
SPEED_HIP == 4
SPEED_KNEE == 6
LIDAR_RANGE == (160 * LenUnit) \div SCALE
INITIAL_RANDOM == 5
LEG_DOWN == (0 - 8 * LenUnit) \div SCALE
LEG_W == (8 * LenUnit) \div SCALE
LEG_H == (34 * LenUnit) \div SCALE
VIEWPORT_W == 600
VIEWPORT_H == 400
TERRAIN_STEP == (14 * LenUnit) \div SCALE
TERRAIN_LENGTH == 200
TERRAIN_HEIGHT == ((VIEWPORT_H * LenUnit) \div SCALE) \div 4
TERRAIN_GRASS == 10
TERRAIN_STARTPAD == 20
NUM_LIDAR == 10
OBS_LEN == 24

\* the terrain grammar's states: GRASS, STUMP, STAIRS, PIT, _STATES_ = range(5)
GRASS == 0
STUMP == 1
STAIRS == 2
PIT == 3
NSTATES == 4

(* ------------------------------ helpers ------------------------------- *)
Abs(n) == IF n < 0 THEN 0 - n ELSE n
Sign(n) == IF n > 0 THEN 1 ELSE IF n < 0 THEN 0 - 1 ELSE 0
Clip(n, lo, hi) == IF n < lo THEN lo ELSE IF n > hi THEN hi ELSE n
\* fixed-point product q*n/d, rounded toward zero
MulDiv(n, q, d) == Sign(n) * ((Abs(n) * q) \div d)
Reverse(s) == [k \in 1..Len(s) |-> s[Len(s) + 1 - k]]
\* Python's `x is None` on a nullable field: <<>> is None, <<v>> is v
None == <<>>
Some(v) == <<v>>
IsNone(o) == Len(o) = 0
Val(o) == o[1]

(* --------------------------- random source ---------------------------- *)
RngMod == 65536
RngSeed(seed) == (seed * 7919 + 4099) % RngMod
RngNext(r) == (r * 25173 + 13849) % RngMod
RngBits(r) == RngNext(r) \div 16
\* the state after n draws
RECURSIVE RngSkip(_, _)
RngSkip(r, n) == IF n = 0 THEN r ELSE RngSkip(RngNext(r), n - 1)
\* np_random.randint(lo, hi): an integer in [lo, hi)
RandInt(r, lo, hi) == lo + (RngBits(r) % (hi - lo))
\* np_random.uniform(lo, hi) in steps of 1/res: an integer in [lo*res, hi*res)
Uniform(r, lo, hi, res) == (lo * res) + (RngBits(r) % ((hi - lo) * res))
\* np_random.rand() > 0.5
RandAboveHalf(r) == (RngBits(r) % 1000) > 500

(* ------------------------------- state -------------------------------- *)
VARIABLES
  hardcore,        \* class attribute: BipedalWalker (FALSE) / BipedalWalkerHardcore (TRUE)
  np_random,       \* state of the instance's random source
  world,           \* the backend's bodies: body id -> body record
  nextId,          \* the id the backend gives the next body it creates
  contactListener, \* world.contactListener: None or Some("ContactDetector")
  touching,        \* the backend's contacts that have begun and not ended
  phys,            \* the backend's kinematic readings of hull and joints
  terrain,         \* self.terrain: None, or Some(sequence of body ids)
  terrain_x,       \* self.terrain_x
  terrain_y,       \* self.terrain_y
  cloud_poly,      \* self.cloud_poly
  hull,            \* self.hull: None or Some(body id)
  legs,            \* self.legs
  joints,          \* self.joints
  lidar,           \* self.lidar: the LidarCallback objects
  game_over,       \* self.game_over
  prev_shaping,    \* self.prev_shaping: None or Some(shaping)
  scroll,          \* self.scroll
  lidar_render,    \* self.lidar_render
  gen,             \* the locals of _generate_terrain
  pc,              \* the position of the running call
  in_reset,        \* whether the running _step is the one _reset calls
  action,          \* the argument of the running _step
  scene,           \* what the backend's last ray casts crossed: None or Some(scene)
  ret,             \* what the last finished _step returned (or raised)
  steps,           \* _step calls finished since _reset cleared the episode state
  seen_done,       \* history: the strongest cause of a done=True that step has
                   \* returned to the caller since the last call of _reset
  resets           \* _reset calls started

worldVars == <<world, nextId, contactListener, touching, phys>>
terrainVars == <<terrain, terrain_x, terrain_y, cloud_poly, gen>>
robotVars == <<hull, legs, joints, lidar>>
episodeVars == <<game_over, prev_shaping, scroll, lidar_render>>
callVars == <<in_reset, action, scene, ret, steps, seen_done>>
vars == <<hardcore, np_random, worldVars, terrainVars, robotVars, episodeVars,
          callVars, pc, resets>>

(* ------------------------- the physics backend ------------------------ *)
\* world.CreateStaticBody(fixtures=fixtureDef(shape=..., friction=FRICTION[, categoryBits]))
\* A fixture's categoryBits default to 0x0001 and its maskBits to 0xFFFF.
StaticBody(shape, verts) == [shape |-> shape, verts |-> verts, categoryBits |-> 1]
\* world.CreateDynamicBody(position=..., fixtures=fixtureDef(categoryBits=0x0020, maskBits=0x001))
DynamicBody(part, x, y, ang) ==
  [shape |-> part, position |-> <<x, y>>, angle |-> ang, categoryBits |-> 32,
   maskBits |-> 1]
\* the world with the bodies bs (a sequence) added under the ids first, first+1, ...
CreateBodies(w, first, bs) ==
  [id \in DOMAIN w \cup (first..(first + Len(bs) - 1)) |->
     IF id \in DOMAIN w THEN w[id] ELSE bs[id - first + 1]]
\* world.DestroyBody for every id in ids
DestroyBodies(w, ids) == [id \in DOMAIN w \ ids |-> w[id]]
Ids(first, n) == [k \in 1..n |-> first + k - 1]
Range(s) == {s[k] : k \in DOMAIN s}

(* --------------------------- terrain generator ------------------------ *)
\* variant: the point index starts at 1
TerrainXNext(i) == (i + 1) * TERRAIN_STEP
\* line 142: x = i * TERRAIN_STEP
TerrainX(i) == i * TERRAIN_STEP
\* variant: the noise is added from the first point on
NoiseAlways(i) == i >= 0
\* line 147: the noise is added only past the start pad
NoiseApplies(i) == i > TERRAIN_STARTPAD
\* line 146: velocity = 0.8 * velocity + 0.01 * np.sign(TERRAIN_HEIGHT - y)
GrassVelocity(velocity, y) ==
  MulDiv(velocity, 8, 10) + MulDiv(Sign(TERRAIN_HEIGHT - y) * LenUnit, 1, 100)
\* line 147: self.np_random.uniform(-1, 1) / SCALE
GrassNoise(r) == Uniform(r, 0 - 1, 1, LenUnit \div SCALE)
\* lines 152-157: the first pit wall; line 167: the second, counter steps further
PitPoly(x, y, shift) ==
  << <<x + shift, y>>, <<x + TERRAIN_STEP + shift, y>>,
     <<x + TERRAIN_STEP + shift, y - 4 * TERRAIN_STEP>>,
     <<x + shift, y - 4 * TERRAIN_STEP>> >>
\* variant: the height returns one point early
PitYShort(original_y, counter) ==
  IF counter > 2 THEN original_y - 4 * TERRAIN_STEP ELSE original_y
\* lines 176-178
PitY(original_y, counter) ==
  IF counter > 1 THEN original_y - 4 * TERRAIN_STEP ELSE original_y
\* lines 182-187
StumpPoly(x, y, counter) ==
  << <<x, y>>, <<x + counter * TERRAIN_STEP, y>>,
     <<x + counter * TERRAIN_STEP, y + counter * TERRAIN_STEP>>,
     <<x, y + counter * TERRAIN_STEP>> >>
\* lines 202-207
StairPoly(x, y, s, stair_width, stair_height) ==
  << <<x + (s * stair_width) * TERRAIN_STEP, y + (s * stair_height) * TERRAIN_STEP>>,
     <<x + ((1 + s) * stair_width) * TERRAIN_STEP, y + (s * stair_height) * TERRAIN_STEP>>,
     <<x + ((1 + s) * stair_width) * TERRAIN_STEP,
       y + ((s * stair_height) - 1) * TERRAIN_STEP>>,
     <<x + (s * stair_width) * TERRAIN_STEP,
       y + ((s * stair_height) - 1) * TERRAIN_STEP>> >>
\* lines 218-220: s / stair_width is a true division (the result is a float), so
\* the height is original_y + (s * stair_height / stair_width) * TERRAIN_STEP
StairY(original_y, counter, stair_steps, stair_width, stair_height) ==
  LET s == (stair_steps * stair_width) - counter - stair_height
  IN original_y + MulDiv(s * stair_height * TERRAIN_STEP, 1, stair_width)
\* variant: the obstacle states are entered whatever the mode
NextTerrainStateAnyMode(state, hc, draw) == IF state = GRASS THEN draw ELSE GRASS
\* variant: in hardcore mode a new state is drawn after every visit
NextTerrainStateChained(state, hc, draw) == IF hc THEN draw ELSE GRASS
\* lines 227-232: the state after the counter has reached 0
NextTerrainState(state, hc, draw) == IF state = GRASS /\ hc THEN draw ELSE GRASS

\* lines 145-220: the branch of one loop iteration; g the locals, r the random
\* source.  Yields the locals, the random source and the polygons created.
GenBranch(g, r) ==
  LET x == TerrainX(g.i) IN
  CASE g.state = GRASS /\ ~g.oneshot ->
         LET v0 == GrassVelocity(g.velocity, g.y)
             v1 == IF NoiseApplies(g.i) THEN v0 + GrassNoise(r) ELSE v0
         IN [g |-> [g EXCEPT !.velocity = v1, !.y = g.y + v1],
             rng |-> IF NoiseApplies(g.i) THEN RngNext(r) ELSE r,
             polys |-> <<>>]
    [] g.state = PIT /\ g.oneshot ->
         LET c == RandInt(r, 3, 5)
         IN [g |-> [g EXCEPT !.counter = c + 2, !.original_y = g.y],
             rng |-> RngNext(r),
             polys |-> << PitPoly(x, g.y, 0), PitPoly(x, g.y, TERRAIN_STEP * c) >>]
    [] g.state = PIT /\ ~g.oneshot ->
         [g |-> [g EXCEPT !.y = PitY(g.original_y, g.counter)],
          rng |-> r, polys |-> <<>>]
    [] g.state = STUMP /\ g.oneshot ->
         LET c == RandInt(r, 1, 3)
         IN [g |-> [g EXCEPT !.counter = c],
             rng |-> RngNext(r),
             polys |-> << StumpPoly(x, g.y, c) >>]
    [] g.state = STAIRS /\ g.oneshot ->
         LET r1 == RngNext(r)
             r2 == RngNext(r1)
             sh == IF RandAboveHalf(r) THEN 1 ELSE 0 - 1
             sw == RandInt(r1, 4, 5)
             ss == RandInt(r2, 3, 5)
         IN [g |-> [g EXCEPT !.stair_height = sh, !.stair_width = sw,
                             !.stair_steps = ss, !.original_y = g.y,
                             !.counter = ss * sw],
             rng |-> RngNext(r2),
             polys |-> [s \in 1..ss |-> StairPoly(x, g.y, s - 1, sw, sh)]]
    [] g.state = STAIRS /\ ~g.oneshot ->
         [g |-> [g EXCEPT !.y = StairY(g.original_y, g.counter, g.stair_steps,
                                       g.stair_width, g.stair_height)],
          rng |-> r, polys |-> <<>>]
    [] OTHER -> [g |-> g, rng |-> r, polys |-> <<>>]

\* variant: the flag is not cleared
OneshotKept(oneshot) == oneshot
\* line 222: oneshot = False
OneshotCleared(oneshot) == FALSE
\* variant: the counter goes down by two
CounterDownTwo(counter) == counter - 2
\* line 224: counter -= 1
CounterDown(counter) == counter - 1
\* lines 222-232: the end of one loop iteration
GenAdvance(g, r, hc) ==
  LET c == CounterDown(g.counter) IN
  IF c = 0
  THEN LET redraw == RandInt(r, TERRAIN_GRASS \div 2, TERRAIN_GRASS)
           r1 == RngNext(r)
           pick == g.state = GRASS /\ hc
       IN [g |-> [g EXCEPT !.i = g.i + 1, !.counter = redraw, !.oneshot = TRUE,
                           !.state = NextTerrainState(g.state, hc, RandInt(r1, 1, NSTATES))],
           rng |-> IF pick THEN RngNext(r1) ELSE r1]
  ELSE [g |-> [g EXCEPT !.i = g.i + 1, !.counter = c,
                        !.oneshot = OneshotCleared(g.oneshot)], rng |-> r]

\* lines 132-137: the locals before the loop
GenLocals ==
  [i |-> 0, state |-> GRASS, velocity |-> 0, y |-> TERRAIN_HEIGHT,
   counter |-> TERRAIN_STARTPAD, oneshot |-> FALSE, original_y |-> 0,
   stair_height |-> 0, stair_width |-> 0, stair_steps |-> 0]

(* ------------------------------ construction -------------------------- *)
NoReturn == [kind |-> "none"]
AngUnit == RewUnit

\* __init__, lines 100-107: the state in which the constructor calls _reset
InitWith(seeds, modes) ==
  /\ hardcore \in modes
  /\ np_random \in {RngSeed(seed) : seed \in seeds}
  /\ world = <<>>
  /\ nextId = 1
  /\ contactListener = None
  /\ touching = {}
  /\ phys = None
  /\ terrain = None
  /\ terrain_x = <<>>
  /\ terrain_y = <<>>
  /\ cloud_poly = <<>>
  /\ hull = None
  /\ legs = <<>>
  /\ joints = <<>>
  /\ lidar = <<>>
  /\ game_over = FALSE
  /\ prev_shaping = None
  /\ scroll = 0
  /\ lidar_render = 0
  /\ gen = GenLocals
  /\ pc = "init"
  /\ in_reset = FALSE
  /\ action = <<>>
  /\ scene = None
  /\ ret = NoReturn
  /\ steps = 0
  /\ seen_done = "none"
  /\ resets = 0

Init == InitWith({0}, {TRUE})
InitTerrain == InitWith(0..MaxTerrainSeed, BOOLEAN)

(* -------------------------------- _reset ------------------------------ *)
\* the contacts of the backend that survive the destruction of the bodies ids
ContactsWithout(ts, ids) == {c \in ts : c[1] \notin ids /\ c[2] \notin ids}
\* line 119: `if not self.terrain`: None or the empty list
NoTerrain(t) == IsNone(t) \/ Val(t) = <<>>

\* variant: the leg bodies are left in the world
DestroyedIdsNoLegs(t, h, ls) == Range(t) \cup {h}
\* lines 121-127: the bodies _destroy passes to world.DestroyBody
DestroyedIds(t, h, ls) == Range(t) \cup {h} \cup Range(ls)

\* variant: _destroy leaves the listener attached
ListenerKept(l) == l
\* line 120: self.world.contactListener = None
ListenerDetached(l) == None

\* _reset is entered, by __init__ (line 108) or by the caller of reset(), and
\* calls _destroy (line 270), which returns at once without terrain (line 119)
\* and otherwise detaches the listener (line 120) before it destroys anything
ResetCall ==
  /\ pc \in {"init", "idle"}
  /\ resets < MaxResets
  /\ resets' = resets + 1
  /\ IF NoTerrain(terrain)
     THEN pc' = "listener" /\ UNCHANGED contactListener
     ELSE pc' = "destroy" /\ contactListener' = ListenerDetached(contactListener)
  /\ in_reset' = FALSE
  /\ action' = <<>>
  /\ scene' = None
  /\ ret' = NoReturn
  /\ seen_done' = "none"
  /\ UNCHANGED <<hardcore, np_random, world, nextId, touching, phys, terrainVars,
                 robotVars, episodeVars, steps>>

\* _destroy, lines 121-129: terrain, hull and legs are passed to
\* world.DestroyBody, which ends the contacts of the bodies it destroys
Destroy ==
  /\ pc = "destroy"
  /\ LET gone == DestroyedIds(Val(terrain), Val(hull), legs)
     IN /\ world' = DestroyBodies(world, gone)
        /\ touching' = ContactsWithout(touching, gone)
  /\ phys' = None
  /\ terrain' = Some(<<>>)
  /\ hull' = None
  /\ legs' = <<>>
  /\ joints' = <<>>
  /\ pc' = "listener"
  /\ UNCHANGED <<hardcore, np_random, nextId, contactListener, terrain_x, terrain_y,
                 cloud_poly, gen, lidar, episodeVars, callVars, resets>>

\* _reset, lines 271-276
InstallListener ==
  /\ pc = "listener"
  /\ contactListener' = Some("ContactDetector")
  /\ game_over' = FALSE
  /\ prev_shaping' = None
  /\ scroll' = 0
  /\ lidar_render' = 0
  /\ steps' = 0
  /\ pc' = "terrain"
  /\ UNCHANGED <<hardcore, np_random, world, nextId, touching, phys, terrainVars,
                 robotVars, in_reset, action, scene, ret, seen_done, resets>>

\* _generate_terrain, lines 132-140
GenInit ==
  /\ pc = "terrain"
  /\ gen' = GenLocals
  /\ terrain' = Some(<<>>)
  /\ terrain_x' = <<>>
  /\ terrain_y' = <<>>
  /\ pc' = "terrain_loop"
  /\ UNCHANGED <<hardcore, np_random, worldVars, cloud_poly,
                 robotVars, episodeVars, callVars, resets>>

\* _generate_terrain, lines 141-232: one iteration of the loop
GenStep ==
  /\ pc = "terrain_loop"
  /\ gen.i < TERRAIN_LENGTH
  /\ LET b == GenBranch(gen, np_random)
         a == GenAdvance(b.g, b.rng, hardcore)
         bodies == [k \in 1..Len(b.polys) |-> StaticBody("polygon", b.polys[k])]
     IN /\ gen' = a.g
        /\ np_random' = a.rng
        /\ terrain_x' = Append(terrain_x, TerrainX(gen.i))
        /\ terrain_y' = Append(terrain_y, b.g.y)
        /\ world' = CreateBodies(world, nextId, bodies)
        /\ terrain' = Some(Val(terrain) \o Ids(nextId, Len(bodies)))
        /\ nextId' = nextId + Len(bodies)
  /\ UNCHANGED <<hardcore, contactListener, touching, phys, cloud_poly,
                 robotVars, episodeVars, callVars, pc, resets>>

\* line 235: the ground edges join the points i and i+1 for i in range(TERRAIN_LENGTH - 1)
EdgeCount == TERRAIN_LENGTH - 1
\* lines 236-239
EdgeVerts(xs, ys, k) == << <<xs[k], ys[k]>>, <<xs[k + 1], ys[k + 1]>> >>

\* _generate_terrain, lines 234-253: the ground edges, then terrain.reverse()
GenEdges ==
  /\ pc = "terrain_loop"
  /\ gen.i = TERRAIN_LENGTH
  /\ LET edges == [k \in 1..EdgeCount |->
                     StaticBody("edge", EdgeVerts(terrain_x, terrain_y, k))]
     IN /\ world' = CreateBodies(world, nextId, edges)
        /\ terrain' = Some(Reverse(Val(terrain) \o Ids(nextId, Len(edges))))
        /\ nextId' = nextId + Len(edges)
  /\ pc' = "clouds"
  /\ UNCHANGED <<hardcore, np_random, contactListener, touching, phys, terrain_x,
                 terrain_y, cloud_poly, gen, robotVars, episodeVars, callVars, resets>>

\* lines 234, 250-252: self.terrain_poly, read by the renderer only, is a
\* function of the terrain points: entry k (from 1) is (poly, color)
TerrainPoly(xs, ys, k) ==
  [poly |-> EdgeVerts(xs, ys, k) \o << <<xs[k + 1], 0>>, <<xs[k], 0>> >>,
   color |-> <<4, 6, 3>>]

\* lines 258, 262-264: the clouds and the corners of one cloud
CloudCount == TERRAIN_LENGTH \div 20
CloudDX == <<0, 19968, 12365, 0 - 12311, 0 - 19989>>
CloudDY == <<7000, 2167, 0 - 5658, 0 - 5671, 2146>>
\* draws per cloud: x, then two per corner
CloudDraws == 11
\* lines 259-267: one cloud drawn from the random source r
Cloud(r) ==
  LET x == Uniform(r, 0, TERRAIN_LENGTH, 1) * TERRAIN_STEP
      y == (((VIEWPORT_H * LenUnit) \div SCALE) * 3) \div 4
      poly == [a \in 1..5 |->
                 << x + CloudDX[a] + Uniform(RngSkip(r, 2 * a - 1), 0, 5, TERRAIN_STEP),
                    y + CloudDY[a] + Uniform(RngSkip(r, 2 * a), 0, 5, TERRAIN_STEP) >>]
      xs == {poly[a][1] : a \in 1..5}
  IN [poly |-> poly,
      x1 |-> CHOOSE m \in xs : \A o \in xs : m <= o,
      x2 |-> CHOOSE m \in xs : \A o \in xs : m >= o]

\* _generate_clouds, line 257
GenClouds ==
  /\ pc = "clouds"
  /\ cloud_poly' = <<>>
  /\ pc' = "cloud_loop"
  /\ UNCHANGED <<hardcore, np_random, worldVars, terrain, terrain_x, terrain_y,
                 gen, robotVars, episodeVars, callVars, resets>>

\* _generate_clouds, lines 258-267: one iteration of the loop
GenCloud ==
  /\ pc = "cloud_loop"
  /\ Len(cloud_poly) < CloudCount
  /\ cloud_poly' = Append(cloud_poly, Cloud(np_random))
  /\ np_random' = RngSkip(np_random, CloudDraws)
  /\ pc' = IF Len(cloud_poly) + 1 = CloudCount THEN "hull" ELSE "cloud_loop"
  /\ UNCHANGED <<hardcore, worldVars, terrain, terrain_x, terrain_y,
                 gen, robotVars, episodeVars, callVars, resets>>

\* lines 284-285
InitX == (TERRAIN_STEP * TERRAIN_STARTPAD) \div 2
InitY == TERRAIN_HEIGHT + 2 * LEG_H
\* the backend's readings of a robot at rest at its spawn position
SpawnPhys ==
  [scene |-> 0, x |-> InitX, y |-> InitY, angle |-> 0, angularVelocity |-> 0, vx |-> 0, vy |-> 0,
   jangle |-> <<0, 0, 0, 0>>, jspeed |-> <<0, 0, 0, 0>>]

\* lines 286-298: the hull body, pushed by the force (push, 0)
HullBody(push) ==
  [shape |-> "hull", position |-> <<InitX, InitY>>, angle |-> 0,
   categoryBits |-> 32, maskBits |-> 1, force |-> <<push, 0>>]

\* _reset, lines 284-298: the hull and its initial random push
BuildHull ==
  /\ pc = "hull"
  /\ world' = CreateBodies(world, nextId,
                 << HullBody(Uniform(np_random, 0 - INITIAL_RANDOM, INITIAL_RANDOM, 1)) >>)
  /\ hull' = Some(nextId)
  /\ nextId' = nextId + 1
  /\ phys' = Some(SpawnPhys)
  /\ np_random' = RngNext(np_random)
  /\ pc' = "legs"
  /\ UNCHANGED <<hardcore, contactListener, touching, terrainVars, legs, joints,
                 lidar, episodeVars, callVars, resets>>

\* lines 315-326 and 342-353: a motorised revolute joint; angles in 1/AngUnit
Joint(a, b, speed, lower, upper) ==
  [bodyA |-> a, bodyB |-> b, motorSpeed |-> speed, maxMotorTorque |-> MOTORS_TORQUE,
   lowerAngle |-> lower, upperAngle |-> upper]
\* lines 303-312 and 330-339, 354: the thigh and the shin of side i (-1 or +1)
Thigh(i) ==
  DynamicBody("thigh", InitX, InitY - (LEG_H \div 2) - LEG_DOWN, i * (AngUnit \div 20))
Shin(i) ==
  [shape |-> "shin", position |-> <<InitX, InitY - ((LEG_H * 3) \div 2) - LEG_DOWN>>,
   angle |-> i * (AngUnit \div 20), categoryBits |-> 32, maskBits |-> 1,
   ground_contact |-> FALSE]

\* _reset, lines 300-356: the four leg bodies and the four joints
BuildLegs ==
  /\ pc = "legs"
  /\ LET h == Val(hull)
         n == nextId
     IN /\ world' = CreateBodies(world, n,
                       << Thigh(0 - 1), Shin(0 - 1), Thigh(1), Shin(1) >>)
        /\ legs' = Ids(n, 4)
        /\ joints' = << Joint(h, n, 0 - 1, MulDiv(AngUnit, 0 - 8, 10), MulDiv(AngUnit, 11, 10)),
                        Joint(n, n + 1, 1, MulDiv(AngUnit, 0 - 16, 10), MulDiv(AngUnit, 0 - 1, 10)),
                        Joint(h, n + 2, 1, MulDiv(AngUnit, 0 - 8, 10), MulDiv(AngUnit, 11, 10)),
                        Joint(n + 2, n + 3, 1, MulDiv(AngUnit, 0 - 16, 10), MulDiv(AngUnit, 0 - 1, 10)) >>
        /\ nextId' = n + 4
  /\ pc' = "lidar"
  /\ UNCHANGED <<hardcore, np_random, contactListener, touching, phys, terrainVars,
                 hull, lidar, episodeVars, callVars, resets>>

\* line 358: self.drawlist, read by the renderer only
Drawlist == Val(terrain) \o legs \o <<Val(hull)>>

(* -------------------------------- _step ------------------------------- *)
\* lines 381-388: the speed constant of joint k (from 0)
JointSpeed(k) == IF k % 2 = 0 THEN SPEED_HIP ELSE SPEED_KNEE
\* variant: the magnitude is not clipped
AbsUnclipped(a) == Abs(a)
\* np.clip(np.abs(a), 0, 1) of an action component, in 1/ActUnit
ClipAbs(a) == Clip(Abs(a), 0, ActUnit)
\* lines 381-388: the joints after the assignments that index the action a; an
\* action with fewer than four components raises IndexError at its first missing
\* index, after the joints before it were set
SetMotors(js, a) ==
  [k \in 1..Len(js) |->
     IF k <= Len(a)
     THEN [js[k] EXCEPT !.motorSpeed = JointSpeed(k - 1) * Sign(a[k]),
                        !.maxMotorTorque = MulDiv(MOTORS_TORQUE, ClipAbs(a[k]), ActUnit)]
     ELSE js[k]]
\* whether lines 381-388 raise for the action a
IndexError(a) == Len(a) < 4

\* the actions the caller passes to step, components in 1/ActUnit
CallerActions ==
  { <<3, 0 - 1, 0, 0 - 4>>, <<2, 2>>, <<2, 0, 1, 0, 2>> }

\* a caller's step(action), lines 374-388, up to the call of world.Step
StepCall ==
  /\ pc = "idle"
  /\ \E a \in CallerActions :
       /\ action' = a
       /\ joints' = SetMotors(joints, a)
       /\ IF IndexError(a)
          THEN pc' = "idle" /\ ret' = [kind |-> "IndexError"]
          ELSE pc' = "world_step" /\ ret' = NoReturn
  /\ in_reset' = FALSE
  /\ scene' = None
  /\ UNCHANGED <<hardcore, np_random, worldVars, terrainVars, hull, legs,
                 lidar, episodeVars, steps, seen_done, resets>>

\* line 368: a LidarCallback has no fraction, p1 or p2 until a step sets them
NewLidar == [i \in 1..NUM_LIDAR |-> [fraction |-> None, p1 |-> None, p2 |-> None]]
ZeroAction == <<0, 0, 0, 0>>

\* _reset, lines 360-370: the lidar callbacks, then _step(np.array([0, 0, 0, 0]))
\* up to its call of world.Step
ResetStep ==
  /\ pc = "lidar"
  /\ lidar' = NewLidar
  /\ action' = ZeroAction
  /\ joints' = SetMotors(joints, ZeroAction)
  /\ in_reset' = TRUE
  /\ scene' = None
  /\ ret' = NoReturn
  /\ pc' = "world_step"
  /\ UNCHANGED <<hardcore, np_random, worldVars, terrainVars, hull, legs,
                 episodeVars, steps, seen_done, resets>>

(* --------------------------- ContactDetector -------------------------- *)
\* self.env.legs[k] of the source (k from 0)
Leg(k) == legs[k + 1]
\* the contacts the backend may report: <<fixtureA.body, fixtureB.body>>, a robot
\* body against one of two terrain bodies, in either order
ContactPairs ==
  LET g1 == Val(terrain)[1]
      g2 == Val(terrain)[2]
  IN { <<g1, Val(hull)>>, <<Leg(0), g1>>, <<Leg(1), g1>>, <<g2, Leg(1)>>, <<g1, Leg(3)>> }
\* variant: a contact of any leg body sets the flag of both shins
SetGroundContactAnyLeg(w, c, flag) ==
  [id \in DOMAIN w |->
     IF id \in {Leg(1), Leg(3)} /\ ({c[1], c[2]} \cap Range(legs)) # {}
     THEN [w[id] EXCEPT !.ground_contact = flag]
     ELSE w[id]]
\* lines 81-83 and 86-88: leg.ground_contact = flag for each shin in the contact c
SetGroundContact(w, c, flag) ==
  [id \in DOMAIN w |->
     IF id \in {Leg(1), Leg(3)} /\ id \in {c[1], c[2]}
     THEN [w[id] EXCEPT !.ground_contact = flag]
     ELSE w[id]]
\* lines 79-80: game_over after BeginContact of the contact c
BeginGameOver(go, c) == IF Val(hull) = c[1] \/ Val(hull) = c[2] THEN TRUE ELSE go
\* variant: the end of the hull's contact clears the flag
EndGameOverClears(go, c) == IF Val(hull) = c[1] \/ Val(hull) = c[2] THEN FALSE ELSE go
\* lines 85-88: EndContact leaves game_over alone
EndGameOver(go, c) == go

\* ContactDetector.BeginContact, lines 78-83, called by the backend in world.Step,
\* any number of times and in any order with EndContact
BeginContact ==
  /\ pc = "world_step"
  /\ ~IsNone(contactListener)
  /\ \E c \in ContactPairs \ touching :
       /\ Cardinality(touching) < MaxTouching
       /\ touching' = touching \cup {c}
       /\ game_over' = BeginGameOver(game_over, c)
       /\ world' = SetGroundContact(world, c, TRUE)
  /\ UNCHANGED <<hardcore, np_random, nextId, contactListener, phys, terrainVars,
                 robotVars, prev_shaping, scroll, lidar_render, in_reset, action,
                 scene, ret, steps, seen_done, pc, resets>>

\* ContactDetector.EndContact, lines 85-88, called by the backend in world.Step
\* and, for a contact of a body being destroyed, in world.DestroyBody
EndContact ==
  /\ pc \in {"world_step", "destroy"}
  /\ ~IsNone(contactListener)
  /\ \E c \in touching :
       /\ touching' = touching \ {c}
       /\ game_over' = EndGameOver(game_over, c)
       /\ world' = SetGroundContact(world, c, FALSE)
  /\ UNCHANGED <<hardcore, np_random, nextId, contactListener, phys, terrainVars,
                 robotVars, prev_shaping, scroll, lidar_render, in_reset, action,
                 scene, ret, steps, seen_done, pc, resets>>

(* ------------------------ lidar and step result ----------------------- *)
\* line 442: the far end of the course
EndX == (TERRAIN_LENGTH - TERRAIN_GRASS) * TERRAIN_STEP
\* what world.Step (line 390) may leave as the hull's x and angle, and what the
\* ray casts after it cross (a scene): the hull behind the start, on the pad
\* (upright or tilted), at the end, beyond the end
HullStates ==
  { <<0 - 1, 0, 1>>, <<InitX, 0, 0>>, <<InitX + TERRAIN_STEP, 0 - (AngUnit \div 10), 2>>,
    <<EndX, 0, 2>>, <<EndX + 1, AngUnit \div 10, 1>> }
\* the backend's readings after world.Step, for a hull at x with angle ang
Outcome(x, ang, sc) ==
  [scene |-> sc, x |-> x, y |-> TERRAIN_HEIGHT + LEG_H, angle |-> ang, angularVelocity |-> 25 * ang,
   vx |-> 50 * Sign(InitX - x), vy |-> 0,
   jangle |-> <<ang, 0 - AngUnit, 0, ang>>, jspeed |-> <<0, 12 * Sign(ang), 0, 0>>]
PhysOutcomes == {Outcome(h[1], h[2], h[3]) : h \in HullStates}

\* lines 399-400: sin and cos of 1.5 * i / 10, times LIDAR_RANGE, for ray i = 0..9
RaySin == <<0, 2391, 4728, 6959, 9034, 10906, 12533, 13879, 14913, 15612>>
RayCos == <<16000, 15820, 15285, 14407, 13205, 11707, 9946, 7961, 5798, 3504>>
\* variant: a fraction recorded by an earlier step is kept
StaleRay(cb, pos, i) ==
  [cb EXCEPT !.fraction = IF IsNone(cb.fraction) THEN Some(FracUnit) ELSE cb.fraction,
             !.p1 = Some(pos),
             !.p2 = Some(<<pos[1] + RaySin[i + 1], pos[2] - RayCos[i + 1]>>)]
\* lines 396-400: the callback of ray i (from 0) before the cast from pos
FreshRay(cb, pos, i) ==
  [cb EXCEPT !.fraction = Some(FracUnit), !.p1 = Some(pos),
             !.p2 = Some(<<pos[1] + RaySin[i + 1], pos[2] - RayCos[i + 1]>>)]
\* LidarCallback.ReportFixture, lines 361-366: the callback and its return value
ReportFixture(cb, fixture) ==
  IF (fixture.categoryBits % 2) = 0
  THEN [cb |-> cb, ret |-> 1]
  ELSE [cb |-> [cb EXCEPT !.p2 = Some(fixture.point), !.fraction = Some(fixture.fraction)],
        ret |-> 0]
\* world.RayCast, line 401: the backend reports the crossed fixtures in its own
\* order, from the k-th on, until the callback returns 0
RECURSIVE RayCast(_, _, _)
RayCast(cb, reports, k) ==
  IF k > Len(reports) THEN cb
  ELSE LET out == ReportFixture(cb, reports[k])
       IN IF out.ret = 0 THEN out.cb ELSE RayCast(out.cb, reports, k + 1)

\* a fixture crossed at the fraction fr (in 1/FracUnit) of the ray p1 -> p2
Crossed(cat, fr, p1, p2) ==
  [categoryBits |-> cat, fraction |-> fr,
   point |-> << p1[1] + MulDiv(p2[1] - p1[1], fr, FracUnit),
                p1[2] + MulDiv(p2[2] - p1[2], fr, FracUnit) >>]
\* what the backend reports for ray i in scene sc: nothing, a leg only, a leg and
\* two ground fixtures (the farther one first), ground at the origin, ground at
\* the end of the ray; scene 0 has nothing under any ray
RayReports(sc, i, p1, p2) ==
  LET kind == IF sc = 0 THEN 0 ELSE (i + sc) % 5 IN
  CASE kind = 0 -> <<>>
    [] kind = 1 -> << Crossed(32, 2, p1, p2) >>
    [] kind = 2 -> << Crossed(32, 1, p1, p2), Crossed(1, 7, p1, p2), Crossed(1, 4, p1, p2) >>
    [] kind = 3 -> << Crossed(1, 0, p1, p2) >>
    [] OTHER -> << Crossed(1, FracUnit, p1, p2) >>

\* lines 403-420: the observation from the readings o, the bodies w, the lidar lid
Observation(o, w, lid) ==
  << o.angle,
     MulDiv(o.angularVelocity, 2, FPS),
     MulDiv(o.vx, 3 * (VIEWPORT_W \div SCALE), 10 * FPS),
     MulDiv(o.vy * VIEWPORT_H, 3, 10 * SCALE * FPS),
     o.jangle[1],
     MulDiv(o.jspeed[1], 1, SPEED_HIP),
     o.jangle[2] + AngUnit,
     MulDiv(o.jspeed[2], 1, SPEED_KNEE),
     IF w[Leg(1)].ground_contact THEN 1 ELSE 0,
     o.jangle[3],
     MulDiv(o.jspeed[3], 1, SPEED_HIP),
     o.jangle[4] + AngUnit,
     MulDiv(o.jspeed[4], 1, SPEED_KNEE),
     IF w[Leg(3)].ground_contact THEN 1 ELSE 0 >>
  \o [i \in 1..Len(lid) |-> Val(lid[i].fraction)]

\* lines 425-427: shaping = 130 * pos[0] / SCALE - 5.0 * abs(state[0]), in 1/RewUnit
Shaping(x, ang) == MulDiv(130 * x, RewUnit \div LenUnit, SCALE) - 5 * Abs(ang)
\* variant: an undefined previous shaping counts as 0
ProgressFromZero(prev, shaping) == IF IsNone(prev) THEN shaping ELSE shaping - Val(prev)
\* lines 429-431
Progress(prev, shaping) == IF IsNone(prev) THEN 0 ELSE shaping - Val(prev)
\* variant: the shaping is stored only while none is stored
PrevShapingKept(prev, shaping) == IF IsNone(prev) THEN Some(shaping) ELSE prev
\* line 432: self.prev_shaping = shaping
PrevShapingAfter(prev, shaping) == Some(shaping)
\* line 435: 0.00035 * MOTORS_TORQUE * np.clip(np.abs(a), 0, 1), in 1/RewUnit
TorqueCost(a) == MulDiv(35 * MOTORS_TORQUE * RewUnit * ClipAbs(a), 1, 100000 * ActUnit)
\* lines 434-435: the cost of every component of the action
RECURSIVE TorqueCosts(_)
TorqueCosts(a) == IF a = <<>> THEN 0 ELSE TorqueCost(Head(a)) + TorqueCosts(Tail(a))
\* variant: reaching the far end is overridden too
FallenOrBeyond(go, x) == go \/ x < 0 \/ x > EndX
\* line 439
Fallen(go, x) == go \/ x < 0
\* variant: the penalty is added to the step's reward
FinalRewardAdded(fallen, reward) == IF fallen THEN reward - 100 * RewUnit ELSE reward
\* lines 439-440: the reward returned
FinalReward(fallen, reward) == IF fallen THEN (0 - 100) * RewUnit ELSE reward
\* variant: done looks at the hull's position only
DoneByPosition(fallen, x) == x < 0 \/ x > EndX
\* lines 438-443
Done(fallen, x) == fallen \/ x > EndX
Min(a, b) == IF a < b THEN a ELSE b

\* history of the caller: _reset returns only the observation of its own step
\* (line 370), a caller's step returns done (line 444); a done by the fatal
\* flag outranks a done by the hull's position alone
SeenDone(seen, inreset, go, done) ==
  IF inreset \/ ~done THEN seen
  ELSE IF go THEN "fatal"
  ELSE IF seen = "fatal" THEN seen ELSE "position"

\* _step, lines 390-444: world.Step returns, the lidar is cast, the observation,
\* the reward and done are computed and returned
StepFinish ==
  /\ pc = "world_step"
  /\ \E o \in PhysOutcomes :
       LET pos == <<o.x, o.y>>
           fresh == [i \in 1..NUM_LIDAR |-> FreshRay(lidar[i], pos, i - 1)]
           reports == [i \in 1..NUM_LIDAR |->
                         RayReports(o.scene, i - 1, pos, Val(fresh[i].p2))]
           lid == [i \in 1..NUM_LIDAR |-> RayCast(fresh[i], reports[i], 1)]
           state == Observation(o, world, lid)
           shaping == Shaping(o.x, state[1])
           reward == Progress(prev_shaping, shaping) - TorqueCosts(action)
           fallen == Fallen(game_over, o.x)
       IN /\ phys' = Some(o)
          /\ scene' = Some(o.scene)
          /\ lidar' = lid
          /\ scroll' = o.x - (((VIEWPORT_W * LenUnit) \div SCALE) \div 5)
          /\ prev_shaping' = PrevShapingAfter(prev_shaping, shaping)
          /\ ret' = [kind |-> "return", obs |-> state,
                     reward |-> FinalReward(fallen, reward),
                     done |-> Done(fallen, o.x),
                     shaping |-> shaping, prev |-> prev_shaping]
          /\ seen_done' = SeenDone(seen_done, in_reset, game_over, Done(fallen, o.x))
  /\ steps' = Min(steps + 1, MaxSteps)
  /\ pc' = "idle"
  /\ UNCHANGED <<hardcore, np_random, world, nextId, contactListener, touching,
                 terrainVars, hull, legs, joints, game_over, lidar_render,
                 in_reset, action, resets>>

(* ---------------------------- specifications -------------------------- *)
Next ==
  \/ ResetCall
  \/ Destroy
  \/ InstallListener
  \/ GenInit
  \/ GenStep
  \/ GenEdges
  \/ GenClouds
  \/ GenCloud
  \/ BuildHull
  \/ BuildLegs
  \/ ResetStep
  \/ StepCall
  \/ BeginContact
  \/ EndContact
  \/ StepFinish

Spec == Init /\ [][Next]_vars

\* the constructor's _reset up to the end of _generate_terrain, over more seeds
NextTerrain ==
  \/ ResetCall
  \/ InstallListener
  \/ GenInit
  \/ GenStep
  \/ GenEdges

SpecTerrain == InitTerrain /\ [][NextTerrain]_vars

(* ------------------------------- claims ------------------------------- *)
\* a step has returned and nothing has been called since
Returned == ret.kind = "return"
HullX == Val(phys).x
\* the sum over the first n components of the action a of
\* 0.00035 * MOTORS_TORQUE * clip(|a_i|, 0, 1), in 1/RewUnit
RECURSIVE SumCost(_, _)
SumCost(a, n) ==
  IF n = 0 THEN 0
  ELSE SumCost(a, n - 1)
       + ((35 * MOTORS_TORQUE * RewUnit * Clip(Abs(a[n]), 0, ActUnit)) \div (100000 * ActUnit))
\* shaping - previous shaping - torque costs of the step that returned
OrdinaryReward ==
  (IF IsNone(ret.prev) THEN 0 ELSE ret.shaping - Val(ret.prev)) - SumCost(action, Len(action))
Penalty == (0 - 100) * RewUnit

\* C1: whenever a step (the one inside reset included) ends with the fatal flag
\* set or the hull at x < 0, it returns done = True and a reward of exactly -100.
C1_TerminalReward ==
  (Returned /\ (game_over \/ HullX < 0)) => (ret.done /\ ret.reward = Penalty)
\* a caller's step with torque costs and a shaping delta ended by the fatal flag alone
C1_Witness ==
  /\ Returned /\ ~in_reset /\ game_over /\ HullX >= 0
  /\ ~IsNone(ret.prev) /\ OrdinaryReward # 0 /\ SumCost(action, Len(action)) > 0
  /\ ret.done /\ ret.reward = Penalty

\* C2 as stated: whenever the hull is beyond the far end, the step returns done =
\* True and the ordinary reward, never the -100 override.
C2_Stated ==
  (Returned /\ HullX > EndX) => (ret.done /\ ret.reward = OrdinaryReward)
\* C2 amended: whenever the hull is beyond the far end, the step returns done =
\* True; the reward is the ordinary value when the fatal flag is not set, and
\* -100 when it is.
C2_EndOfCourse ==
  (Returned /\ HullX > EndX) =>
     (ret.done /\ ret.reward = IF game_over THEN Penalty ELSE OrdinaryReward)
\* a step that ends beyond the far end without fatal contact, with a nonzero reward
C2_Witness ==
  /\ Returned /\ HullX > EndX /\ ~game_over
  /\ ret.done /\ ret.reward = OrdinaryReward /\ ret.reward # 0 /\ ~IsNone(ret.prev)

\* the caller's first step after reset() returned: the second step of the episode
FirstCallerStep == Returned /\ ~in_reset /\ steps = 2 /\ Len(action) = 4
\* C3 as stated: the first step a caller makes after reset() contributes no
\* progress reward: without override its reward is minus the torque costs.
C3_Stated ==
  (FirstCallerStep /\ ~(game_over \/ HullX < 0)) => ret.reward = 0 - SumCost(action, 4)
\* C3 amended: the step without progress reward is the zero-action step run
\* inside reset (previous shaping None, reward 0 without override); the caller's
\* first step finds the previous shaping that step left, and without override
\* its reward is shaping - previous shaping - torque costs.
C3_FirstReward ==
  (Returned /\ ~(game_over \/ HullX < 0)) =>
     /\ in_reset => (steps = 1 /\ IsNone(ret.prev) /\ ret.reward = 0)
     /\ FirstCallerStep =>
          /\ ~IsNone(ret.prev)
          /\ ret.reward = (ret.shaping - Val(ret.prev)) - SumCost(action, 4)
\* a caller's first step during which the shaping changed
C3_Witness ==
  /\ FirstCallerStep /\ ~(game_over \/ HullX < 0)
  /\ ~IsNone(ret.prev) /\ ret.shaping # Val(ret.prev)
  /\ ret.reward # 0 - SumCost(action, 4)

\* whether the backend reported a ground fixture to ray i (from 0) in the last cast
GroundHit(i) ==
  LET reports == RayReports(Val(scene), i, <<0, 0>>, <<0, 0>>)
  IN \E k \in DOMAIN reports : (reports[k].categoryBits % 2) = 1
\* C4: every observation returned has 24 elements, and elements 14..23 are the
\* lidar fractions in [0, 1]: 1.0 for a ray that reported no ground hit on that step.
C4_Observation ==
  Returned =>
     /\ Len(ret.obs) = 24
     /\ \A i \in 0..9 :
          /\ ret.obs[15 + i] >= 0
          /\ ret.obs[15 + i] <= FracUnit
          /\ ~GroundHit(i) => ret.obs[15 + i] = FracUnit
\* a later step of an episode: one ray crossed only a leg and reads 1.0, another
\* reads a ground hit at the origin, another a hit in between
C4_Witness ==
  /\ Returned /\ steps >= 2
  /\ \E i \in 0..9 :
       /\ RayReports(Val(scene), i, <<0, 0>>, <<0, 0>>) # <<>>
       /\ ~GroundHit(i)
       /\ ret.obs[15 + i] = FracUnit
  /\ \E i \in 0..9 : GroundHit(i) /\ ret.obs[15 + i] = 0
  /\ \E i \in 0..9 : GroundHit(i) /\ ret.obs[15 + i] > 0 /\ ret.obs[15 + i] < FracUnit

\* the static bodies that are obstacle polygons, and those that are ground edges
Obstacles == {id \in DOMAIN world : world[id].shape = "polygon"}
Edges == {id \in DOMAIN world : world[id].shape = "edge"}
TerrainBuilt == pc = "clouds"

\* C6: in non-hardcore mode the grammar state is GRASS at every generation step
\* and no obstacle polygon is created: the static bodies are the ground edges.
C6_NoObstacles ==
  ~hardcore => (gen.state = GRASS /\ Obstacles = {} /\ DOMAIN world = Edges)
\* a finished non-hardcore terrain with uneven ground
C6_Witness ==
  /\ ~hardcore /\ TerrainBuilt
  /\ Cardinality(Edges) = TERRAIN_LENGTH - 1
  /\ \E k \in DOMAIN terrain_y : terrain_y[k] # TERRAIN_HEIGHT

\* C7: the first TERRAIN_STARTPAD terrain points have height TERRAIN_HEIGHT (the
\* grass velocity stays 0 on the start pad) and no obstacle lies before the end
\* of the start pad.
C7_StartPadFlat ==
  /\ \A k \in DOMAIN terrain_y : k <= TERRAIN_STARTPAD => terrain_y[k] = TERRAIN_HEIGHT
  /\ (pc = "terrain_loop" /\ gen.i <= TERRAIN_STARTPAD) => gen.velocity = 0
  /\ \A id \in Obstacles :
       \A v \in DOMAIN world[id].verts :
          world[id].verts[v][1] >= TERRAIN_STARTPAD * TERRAIN_STEP
\* a finished hardcore terrain with an obstacle right at the end of the start
\* pad and uneven ground after it
C7_Witness ==
  /\ hardcore /\ TerrainBuilt
  /\ \E id \in Obstacles : world[id].verts[1][1] = TERRAIN_STARTPAD * TERRAIN_STEP
  /\ \E k \in DOMAIN terrain_y : k > TERRAIN_STARTPAD /\ terrain_y[k] # TERRAIN_HEIGHT

\* C8: generation produces TERRAIN_LENGTH points with terrain_x[i] = i *
\* TERRAIN_STEP, and TERRAIN_LENGTH - 1 ground edges joining consecutive points.
C8_TerrainPoints ==
  /\ \A k \in DOMAIN terrain_x : terrain_x[k] = (k - 1) * TERRAIN_STEP
  /\ TerrainBuilt =>
       /\ Len(terrain_x) = TERRAIN_LENGTH
       /\ Len(terrain_y) = TERRAIN_LENGTH
       /\ Cardinality(Edges) = TERRAIN_LENGTH - 1
       /\ \A k \in 1..(TERRAIN_LENGTH - 1) :
            \E id \in Edges :
               world[id].verts = << <<(k - 1) * TERRAIN_STEP, terrain_y[k]>>,
                                    <<k * TERRAIN_STEP, terrain_y[k + 1]>> >>
\* a finished hardcore terrain that visited obstacle states
C8_Witness ==
  /\ hardcore /\ TerrainBuilt
  /\ Cardinality(Obstacles) >= 3
  /\ Len(terrain_x) = TERRAIN_LENGTH

\* C9: once set, the fatal flag stays set through every contact event and step;
\* only _reset (line 273) clears it.
C9_FatalPersists == [][(game_over /\ pc # "listener") => game_over']_vars
\* the flag is still set after the hull's contact has ended and a step returned
C9_Witness ==
  /\ game_over /\ Returned /\ ~in_reset
  /\ \A c \in touching : Val(hull) # c[1] /\ Val(hull) # c[2]

\* C10 as stated: a step whose action has not 4 components fails with an error
\* and does not advance the simulation.
C10_Stated ==
  (action # <<>> /\ Len(action) # 4) => (pc = "idle" /\ ret.kind = "IndexError")

\* C11: when _reset has returned (and after any steps since), the world holds
\* exactly the bodies of the most recent _reset, each listed once: its 199 ground
\* edges and its obstacle polygons (self.terrain), one hull, two thighs and two
\* shins; their ids are the newest the backend has given out, so none is a body of
\* an earlier episode, and no id would be passed to DestroyBody twice.
C11_WorldBodies ==
  pc = "idle" =>
    LET t == Val(terrain)
        live == Range(t) \cup {Val(hull)} \cup Range(legs)
        n == Len(t) + 5
    IN /\ DOMAIN world = live
       /\ Len(legs) = 4
       /\ Cardinality(live) = n
       /\ live = (nextId - n)..(nextId - 1)
       /\ \A id \in Range(t) : world[id].shape \in {"edge", "polygon"}
       /\ Cardinality(Edges) = TERRAIN_LENGTH - 1
       /\ world[Val(hull)].shape = "hull"
       /\ \A k \in {0, 2} : world[Leg(k)].shape = "thigh" /\ world[Leg(k + 1)].shape = "shin"
\* a second _reset has returned, steps have run in both episodes, and the world
\* holds obstacles but no body of the first episode
C11_Witness ==
  /\ pc = "idle" /\ resets = 2 /\ Returned /\ ~in_reset
  /\ Obstacles # {} /\ 1 \notin DOMAIN world /\ nextId > 2 * TERRAIN_LENGTH

\* the motor speed and the max torque step must give a joint (k from 0) for the
\* action component a (in 1/ActUnit)
SpeedFor(k, a) ==
  LET c == IF k \in {0, 2} THEN SPEED_HIP ELSE SPEED_KNEE
  IN IF a > 0 THEN c ELSE IF a < 0 THEN 0 - c ELSE 0
TorqueFor(a) ==
  LET m == IF a < 0 THEN 0 - a ELSE a
  IN (MOTORS_TORQUE * (IF m > ActUnit THEN ActUnit ELSE m)) \div ActUnit
\* C12: whatever the component values, inside or outside [-1, 1], a step with
\* four components raises no error; each joint has motor speed sign(a) times
\* its speed constant and max torque MOTORS_TORQUE * clip(|a|, 0, 1), which is in
\* [0, MOTORS_TORQUE]; the torque cost of the step (progress minus the returned
\* reward, when there is no override) is at most 4 * 0.00035 * MOTORS_TORQUE.
C12_Motors ==
  (pc \in {"world_step", "idle"} /\ action # <<>>) =>
    /\ \A k \in 1..4 :
         k <= Len(action) =>
           /\ joints[k].motorSpeed = SpeedFor(k - 1, action[k])
           /\ joints[k].maxMotorTorque = TorqueFor(action[k])
           /\ joints[k].maxMotorTorque \in 0..MOTORS_TORQUE
    /\ Len(action) = 4 => ret.kind # "IndexError"
    /\ (Returned /\ Len(action) = 4 /\ ~game_over /\ HullX >= 0) =>
         LET progress == IF IsNone(ret.prev) THEN 0 ELSE ret.shaping - Val(ret.prev)
         IN (progress - ret.reward) \in 0..((4 * 35 * MOTORS_TORQUE * RewUnit) \div 100000)
\* a caller's step with components above 1, below -1, inside and zero has returned
C12_Witness ==
  /\ Returned /\ ~in_reset /\ Len(action) = 4 /\ ~game_over /\ HullX >= 0
  /\ \E k \in 1..4 : action[k] > ActUnit /\ joints[k].maxMotorTorque = MOTORS_TORQUE
                      /\ joints[k].motorSpeed > 0
  /\ \E k \in 1..4 : action[k] < 0 - ActUnit /\ joints[k].maxMotorTorque = MOTORS_TORQUE
                      /\ joints[k].motorSpeed = 0 - SPEED_KNEE
  /\ \E k \in 1..4 : action[k] = 0 /\ joints[k].maxMotorTorque = 0 /\ joints[k].motorSpeed = 0
  /\ \E k \in 1..4 : action[k] = 0 - 1 /\ 2 * joints[k].maxMotorTorque = MOTORS_TORQUE
  /\ ret.reward # 0

\* the contact a BeginContact or EndContact callback was called for
EventContact == CHOOSE c \in (touching' \ touching) \cup (touching \ touching') : TRUE
\* C13: a contact event between bodies that are neither the hull nor a shin
\* leaves game_over and both shins' ground_contact as they were, and an event of
\* one shin leaves the other shin's ground_contact as it was.
C13_OtherBodies ==
  [][(pc = "world_step" /\ pc' = "world_step" /\ touching' # touching) =>
       LET c == EventContact
           has(b) == b = c[1] \/ b = c[2]
       IN /\ (~has(Val(hull)) /\ ~has(Leg(1)) /\ ~has(Leg(3))) =>
               /\ game_over' = game_over
               /\ world'[Leg(1)].ground_contact = world[Leg(1)].ground_contact
               /\ world'[Leg(3)].ground_contact = world[Leg(3)].ground_contact
          /\ (has(Leg(1)) /\ ~has(Leg(3))) =>
               world'[Leg(3)].ground_contact = world[Leg(3)].ground_contact
          /\ (has(Leg(3)) /\ ~has(Leg(1))) =>
               world'[Leg(1)].ground_contact = world[Leg(1)].ground_contact]_vars
\* a thigh and one shin touch the ground: only that shin's flag is set and the
\* fatal flag is not
C13_Witness ==
  /\ Returned /\ ~game_over
  /\ \E c \in touching : Leg(0) \in {c[1], c[2]}
  /\ \E c \in touching : Leg(1) \in {c[1], c[2]}
  /\ world[Leg(1)].ground_contact /\ ~world[Leg(3)].ground_contact

\* an executed step: _step runs from world.Step to its return
StepExecutes == pc = "world_step" /\ pc' = "idle"
\* C14: the step that finds prev_shaping null is exactly the first step executed
\* since _reset cleared it; every step stores the shaping it computed, nothing
\* but a step and _reset's clearing (line 274) assigns prev_shaping, so every
\* other step finds the shaping of the step executed just before it in the same
\* episode.
C14_PrevShaping ==
  [][/\ StepExecutes =>
          /\ ret'.prev = prev_shaping
          /\ IsNone(prev_shaping) <=> steps = 0
          /\ prev_shaping' = <<ret'.shaping>>
     /\ pc = "listener" => IsNone(prev_shaping')
     /\ (~StepExecutes /\ pc # "listener") => prev_shaping' = prev_shaping]_vars
\* the second episode's third step found the shaping its second step had stored,
\* which is not the one the first episode ended with
C14_Witness ==
  /\ resets = 2 /\ Returned /\ ~in_reset /\ steps = 3
  /\ ~IsNone(ret.prev) /\ Val(ret.prev) # ret.shaping /\ Val(ret.prev) # Shaping(InitX, 0)

\* a loop iteration of _generate_terrain runs in the grammar state st, past
\* the visit's first (oneshot) step
LaterStepOf(st) ==
  pc = "terrain_loop" /\ gen.i < TERRAIN_LENGTH /\ gen.state = st /\ ~gen.oneshot
\* the height the iteration appends
NewY == terrain_y'[Len(terrain_y')]
\* C15 as stated: on the later steps of a STAIRS visit the height appended is
\* original_y + k * stair_height * TERRAIN_STEP for the integer tread index
\* k = (stair_steps * stair_width - counter - stair_height) div stair_width.
C15_Stated ==
  [][LaterStepOf(STAIRS) =>
       LET s == (gen.stair_steps * gen.stair_width) - gen.counter - gen.stair_height
           k == s \div gen.stair_width
       IN NewY = gen.original_y + k * gen.stair_height * TERRAIN_STEP]_vars

ObstacleStates == {STUMP, STAIRS, PIT}
\* C16: the grammar enters an obstacle state only in hardcore mode, only from
\* GRASS and only on the iteration whose decrement brings the counter to 0; an
\* obstacle state is left only for GRASS, so no two obstacle visits are adjacent.
C16_Grammar ==
  [][(pc = "terrain_loop" /\ pc' = "terrain_loop") =>
       /\ (gen'.state \in ObstacleStates /\ (gen'.oneshot \/ gen'.state # gen.state)) =>
            /\ hardcore
            /\ gen.state = GRASS
            /\ gen.counter = 1
            /\ gen'.oneshot
       /\ (gen.state \in ObstacleStates /\ (gen'.oneshot \/ gen'.state # gen.state)) =>
            gen'.state = GRASS /\ gen'.oneshot]_vars
\* a GRASS visit begins right after an obstacle visit, itself begun from GRASS
C16_Witness ==
  /\ pc = "terrain_loop" /\ hardcore /\ gen.state = GRASS /\ gen.oneshot
  /\ Cardinality(Obstacles) >= 4 /\ gen.i > TERRAIN_STARTPAD + 1

\* the bodies one loop iteration creates
CreatedIds == nextId..(nextId' - 1)
\* C17: an iteration creates obstacle polygons only as the first (oneshot) step
\* of an obstacle visit: 1 for STUMP, 2 for PIT, stair_steps (3 or 4) for
\* STAIRS, and none on any other step; oneshot is true for exactly the
\* iteration after a transition (a change of state; in normal mode, where the
\* state stays GRASS, the counter running out).
C17_Emission ==
  [][(pc = "terrain_loop" /\ pc' = "terrain_loop") =>
       /\ Cardinality(CreatedIds) =
            (IF ~gen.oneshot \/ gen.state = GRASS THEN 0
             ELSE IF gen.state = STUMP THEN 1
             ELSE IF gen.state = PIT THEN 2
             ELSE gen'.stair_steps)
       /\ (gen.oneshot /\ gen.state = STAIRS) => gen'.stair_steps \in {3, 4}
       /\ \A id \in CreatedIds : id \in DOMAIN world' /\ world'[id].shape = "polygon"
       /\ DOMAIN world' = DOMAIN world \cup CreatedIds
       /\ gen'.oneshot <=> (IF hardcore THEN gen'.state # gen.state ELSE gen.counter = 1)]_vars
\* a STAIRS visit is some steps past its first and the world holds exactly its
\* stair_steps treads
C17_Witness ==
  /\ pc = "terrain_loop" /\ gen.state = STAIRS /\ ~gen.oneshot
  /\ gen.counter < (gen.stair_steps * gen.stair_width) - 2
  /\ Cardinality(Obstacles) = gen.stair_steps

\* a pit wall: a polygon one TERRAIN_STEP wide reaching 4 * TERRAIN_STEP down
IsPitWall(b) ==
  /\ b.shape = "polygon"
  /\ b.verts[2][1] - b.verts[1][1] = TERRAIN_STEP
  /\ b.verts[3][2] = b.verts[1][2] - 4 * TERRAIN_STEP
\* a PIT visit has just ended: GRASS begins and the newest bodies are pit walls
PitVisitEnded ==
  /\ pc = "terrain_loop" /\ gen.state = GRASS /\ gen.oneshot
  /\ Len(Val(terrain)) >= 2
  /\ IsPitWall(world[Val(terrain)[Len(Val(terrain))]])
\* the two walls of the newest pit, the index i its visit began at, its drawn
\* width c and its original_y
PitWall1 == world[Val(terrain)[Len(Val(terrain)) - 1]]
PitWall2 == world[Val(terrain)[Len(Val(terrain))]]
PitStart == PitWall1.verts[1][1] \div TERRAIN_STEP
PitWidth == (PitWall2.verts[1][1] - PitWall1.verts[1][1]) \div TERRAIN_STEP
PitTop == PitWall1.verts[1][2]
\* point k (from 0) of the terrain
PointX(k) == terrain_x[k + 1]
PointY(k) == terrain_y[k + 1]
\* C18: a PIT visit that began at index i with drawn width c in {3, 4} covers
\* the points i..i+c+1; the point i and the last point are at original_y,
\* exactly the c points i+1..i+c are at original_y - 4 * TERRAIN_STEP, and
\* these lie between the walls, which span [i, i+1] and [i+c, i+c+1].
C18_Pit ==
  PitVisitEnded =>
    LET i == PitStart
        c == PitWidth
    IN /\ c \in {3, 4}
       /\ IsPitWall(PitWall1) /\ PitWall2.verts[1][2] = PitTop
       /\ gen.i = i + c + 2 /\ Len(terrain_y) = gen.i
       /\ gen.original_y = PitTop
       /\ PointY(i) = PitTop /\ PointY(i + c + 1) = PitTop
       /\ \A k \in (i + 1)..(i + c) : PointY(k) = PitTop - 4 * TERRAIN_STEP
       /\ PitWall1.verts[1][1] = PointX(i) /\ PitWall1.verts[2][1] = PointX(i + 1)
       /\ PitWall2.verts[1][1] = PointX(i + c) /\ PitWall2.verts[2][1] = PointX(i + c + 1)
       /\ \A k \in (i + 1)..(i + c) :
            PitWall1.verts[2][1] <= PointX(k) /\ PointX(k) <= PitWall2.verts[1][1]
\* a pit of width 4 has been completed
C18_Witness == PitVisitEnded /\ PitWidth = 4 /\ PointY(PitStart + 4) < PitTop

\* the hit fractions of the ground fixtures ray i (from 0) crossed in the last cast
GroundFractions(i) ==
  LET reports == RayReports(Val(scene), i, <<0, 0>>, <<0, 0>>)
  IN {reports[k].fraction : k \in {j \in DOMAIN reports : (reports[j].categoryBits % 2) = 1}}
\* C19 as stated: after each step the fraction recorded for a ray is the
\* smallest hit fraction among the ground fixtures the ray crosses, in whatever
\* order the backend reports them, and 1.0 when it crosses none.
C19_Stated ==
  Returned =>
    \A i \in 0..(NUM_LIDAR - 1) :
      LET fr == GroundFractions(i)
      IN /\ fr = {} => ret.obs[15 + i] = FracUnit
         /\ fr # {} => ret.obs[15 + i] = CHOOSE m \in fr : \A o \in fr : m <= o

\* whether the shin legs[k] has a contact that has begun and not ended
ShinTouches(k) == \E c \in touching : Leg(k) \in {c[1], c[2]}
\* C20 as stated: under any interleaving of begin and end events a shin's
\* ground_contact, and with it observation element 8 or 13, is true exactly
\* when the shin has at least one contact that has begun and not ended.
C20_Stated ==
  (pc \in {"world_step", "idle"} /\ Len(legs) = 4) =>
    /\ \A k \in {1, 3} : world[Leg(k)].ground_contact <=> ShinTouches(k)
    /\ Returned => /\ ret.obs[9] = (IF ShinTouches(1) THEN 1 ELSE 0)
                   /\ ret.obs[14] = (IF ShinTouches(3) THEN 1 ELSE 0)


(* C21: termination and the steps after it *)
\* a step of the caller (not the one _reset makes) returns
CallerStepReturns == StepExecutes /\ ~in_reset
\* lines 439 and 442 on the position the step leaves
OutOfCourse(x) == x < 0 \/ x > EndX

\* C21 (as stated): once a step of the caller has returned done=True, every
\* later step before the next _reset returns done=True
C21_Stated ==
  [][(seen_done # "none" /\ CallerStepReturns) => ret'.done]_vars

\* C21 (amended): a call of step after a done=True is taken like any other: with
\* four or more components it runs world.Step, with fewer it raises IndexError;
\* done is computed anew from the fatal flag and the hull's position, so after a
\* done=True by fatal contact every later step of the episode returns done=True,
\* and after a done=True by position alone a later step returns done=True
\* exactly when the fatal flag is set or the hull is again out of the course
C21_DoneRecomputed ==
  [][ /\ (seen_done = "fatal" /\ CallerStepReturns) => ret'.done
      /\ (seen_done = "position" /\ CallerStepReturns)
           => (ret'.done <=> (game_over \/ OutOfCourse(Val(phys').x)))
      /\ (seen_done # "none" /\ pc = "idle" /\ resets' = resets)
           => IF Len(action') >= 4 THEN pc' = "world_step" /\ ret' = NoReturn
              ELSE pc' = "idle" /\ ret'.kind = "IndexError" ]_vars
\* a step runs after a done=True by fatal contact, the hull touching nothing any
\* more
C21_Witness ==
  /\ seen_done = "fatal" /\ pc = "world_step" /\ ~in_reset
  /\ touching = {} /\ ~OutOfCourse(HullX)

(* C22: the run-length counter of the terrain generator *)
\* one iteration of the loop of _generate_terrain
LoopIteration == pc = "terrain_loop" /\ gen'.i = gen.i + 1
\* the iteration is the first of a visit: the first of the loop (line 136,
\* the start pad) or the one after the counter ran out (oneshot, lines 229, 232)
VisitBegins == gen.i = 0 \/ gen.oneshot
\* the iterations of the visit still to run, this one included, as the
\* iteration leaves them: the counter ran out (line 225) or stands at one less
VisitLeft == IF gen'.oneshot THEN 1 ELSE gen'.counter + 1
\* line 226: the values of randint(TERRAIN_GRASS / 2, TERRAIN_GRASS)
GrassLengths == (TERRAIN_GRASS \div 2)..(TERRAIN_GRASS - 1)
\* C22: the counter is at least 1 at the start of every loop iteration and
\* goes down by exactly one per iteration until the visit ends, so a visit
\* lasts as many iterations as the counter stood at in its first one: 20 for
\* the start pad, the drawn 5..9 for a later GRASS visit, and for an obstacle,
\* whatever was drawn at the transition (5..9), the obstacle's own length:
\* 1..2 for STUMP, 5..6 for PIT, stair_steps * stair_width (12 or 16) for STAIRS
C22_RunLengths ==
  [][LoopIteration =>
       /\ gen.counter >= 1 /\ gen'.counter >= 1
       /\ ~gen'.oneshot => gen'.state = gen.state
       /\ IF ~VisitBegins THEN VisitLeft = gen.counter
          ELSE IF gen.i = 0 THEN VisitLeft = TERRAIN_STARTPAD /\ gen.state = GRASS
          ELSE /\ gen.counter \in GrassLengths
               /\ gen.state = GRASS => VisitLeft = gen.counter
               /\ gen.state = STUMP => VisitLeft \in 1..2
               /\ gen.state = PIT => VisitLeft \in 5..6
               /\ gen.state = STAIRS =>
                    /\ VisitLeft = gen'.stair_steps * gen'.stair_width
                    /\ VisitLeft \in {12, 16}]_vars
\* the second iteration of a STAIRS visit: the counter stands at the visit's
\* own length less one, above anything line 226 draws
C22_Witness ==
  /\ pc = "terrain_loop" /\ gen.state = STAIRS /\ ~gen.oneshot
  /\ gen.counter = gen.stair_steps * gen.stair_width - 1
  /\ gen.counter > TERRAIN_GRASS

(* C23: what the contact callbacks find *)
\* the backend calls BeginContact or EndContact of the installed listener
ContactCallback == pc' = pc /\ touching' # touching /\ ~IsNone(contactListener)
\* self.hull is a live body made after the terrain of this episode, and
\* self.legs holds four live bodies made after it
HullAndLegs ==
  /\ ~IsNone(hull) /\ Val(hull) \in DOMAIN world
  /\ ~NoTerrain(terrain) /\ \A t \in Range(Val(terrain)) : t < Val(hull)
  /\ Len(legs) = 4
  /\ \A k \in 1..Len(legs) : legs[k] \in DOMAIN world /\ legs[k] > Val(hull)
\* world.DestroyBody takes a body out of the world
BodiesDestroyed == (DOMAIN world) \ (DOMAIN world') # {}
\* _step reaches world.Step (line 390)
PhysicsAdvances == pc # "world_step" /\ pc' = "world_step"

\* C23: whenever BeginContact or EndContact runs, self.hull is a live body and
\* self.legs holds exactly four live bodies, all of the current episode, before
\* and after the callback; no body is destroyed while a listener is attached;
\* and world.Step is entered only with a listener attached and hull and legs built
C23_Callbacks ==
  [][ /\ ContactCallback => HullAndLegs /\ HullAndLegs'
      /\ BodiesDestroyed => IsNone(contactListener)
      /\ PhysicsAdvances => ~IsNone(contactListener') /\ HullAndLegs' ]_vars
\* in the episode after a teardown, a callback has set a shin's flag
C23_Witness ==
  /\ resets = 2 /\ pc = "world_step" /\ ~IsNone(contactListener)
  /\ \E c \in touching : Leg(1) \in {c[1], c[2]}
  /\ world[Leg(1)].ground_contact
====
